---- MODULE Spec2Model ----
(***************************************************************************)
(* Content-to-layout pipeline of the YouTube-to-infographic backend:       *)
(*   - content analysis      (backend/main.py)                             *)
(*   - icon ranking          (backend/services/vector_db.py)               *)
(*   - layout mapping        (backend/services/infographic_generator.py)   *)
(*   - jobs and endpoints    (backend/main.py, services/template_service.py) *)
(*                                                                         *)
(* Text is abstracted in two ways.  The content analysis only looks at     *)
(* features of sentence units (length, first percentage match, salience    *)
(* marker, quotation mark), so a transcript is a sequence of feature       *)
(* records and a derived string is named by the unit it was cut from.      *)
(* The layout mapper does substring tests, so there a text is a sequence   *)
(* of one-character strings.                                               *)
(***************************************************************************)
EXTENDS Integers, Sequences, FiniteSets, TLC

VARIABLES
    collection,      \* VectorIconService.collection: the icon index, or unavailable
    queryRaises,     \* whether collection.query raises for this query
    rcategory,       \* the category argument of find_relevant_icons (NoCategory = None)
    rlimit,          \* the limit argument of find_relevant_icons
    indexAnswer,     \* the entries collection.query returned to the last call
    rankResult,      \* the list find_relevant_icons returned
    rankAgain,       \* the list a second, identical call returned
    rpc,             \* position of the ranking calls: "idle" | "start" | "done" | "again"
    content,         \* the content analysis handed to _map_icons_to_positions
    template_data,   \* the template's coordinates (get_template_coordinates)
    icons,           \* the shared icon pool
    positioned_elements,   \* what _map_icons_to_positions returned
    mpc,             \* position of the mapping call: "idle" | "start" | "done"
    openai_client,   \* main.py:40   TRUE when a language-model client is configured
    transcript,      \* the transcript text, as its '.'-separated sentence units
    response,        \* what the language-model call answers for this transcript
    analysis,        \* the value returned by analyze_transcript_content, or NoAnalysis
    apc,             \* position of the analysis call: "start" | "done"
    processing_jobs,         \* main.py:68   job id -> status record
    generated_infographics,  \* main.py:69   job id -> infographic record
    tasks,           \* the background tasks: job id -> position and locals of process_youtube_video
    template_store,  \* the template database behind TemplateService
    reply            \* the last HTTP reply of the API

analyzeVars == <<openai_client, transcript, response, analysis, apc>>

rankVars == <<collection, queryRaises, rcategory, rlimit, indexAnswer, rankResult, rankAgain, rpc>>

mapVars == <<content, template_data, icons, positioned_elements, mpc>>

jobVars == <<processing_jobs, generated_infographics, tasks, template_store, reply>>

vars == <<analyzeVars, rankVars, mapVars, jobVars>>

-----------------------------------------------------------------------------
(* Bounds of the model *)

MaxSentences   == 7   \* sentence units in a transcript
MaxDraftPoints == 7   \* key points in a language-model draft
MaxDraftStats  == 5   \* statistics in a language-model draft
MaxDraftQuotes == 3   \* quotes in a language-model draft
MaxMapPoints   == 2   \* key points of a content handed to the mapper
MaxMapStats    == 1   \* statistics of such a content
MaxMapQuotes   == 2   \* quotes of such a content
MaxPointSlots  == 3   \* key_point slots of a template
MaxStatSlots   == 2   \* statistic slots of a template
MaxQuoteSlots  == 2   \* quote slots of a template
MaxJobs        == 1   \* jobs generate_infographic creates

-----------------------------------------------------------------------------
(* Program constants of backend/main.py *)

max_chars          == 12000   \* analyze_with_openai: transcript truncation
SentenceWindow     == 30      \* analyze_basic_content: sentences[:30]
MinSentenceLen     == 10      \* len(sentence) < 10 -> skipped
MaxLabelLen        == 40      \* sentence[:40] + "..."
MaxPointLen        == 120     \* len(sentence) <= 120
MaxTitleLen        == 80      \* clean_sentences[0][:80]
TitleWindow        == 5       \* sentences[:5]
MeaningfulFrom     == 1       \* sentences[1:8]
MeaningfulTo       == 8
MeaningfulMinLen   == 15      \* len(s.strip()) > 15
MinKeyPoints       == 5
MaxKeyPoints       == 6
MaxStatistics      == 4       \* statistics[:4]
MaxQuotes          == 2       \* quotes[:2]
MaxPercentage      == 100     \* min(percentage, 100)
WordsPerPercent    == 20      \* word_count // 20
PercentPerPoint    == 15      \* len(key_points) * 15

Vocabulary == {"business", "education", "technology", "health", "finance", "lifestyle"}

-----------------------------------------------------------------------------
(* Program constants of backend/services *)

FallbackCap   == 6     \* _get_fallback_icons: range(min(limit, 6))
DefaultLimit  == 6     \* find_relevant_icons(..., limit: int = 6)
PoolLimit     == 10    \* generate_infographic_data: limit=10

\* Similarity scores and cosine distances are kept in tenths: a distance of
\* 15 is 1.5, a similarity_score of -5 is -0.5, and a keyword match adds
\* 2 * ScoreScale to a score.
ScoreScale    == 10
MaxDistance   == 20    \* a cosine distance lies in [0, 2]

-----------------------------------------------------------------------------
(* Generic helpers *)

Min(a, b) == IF a <= b THEN a ELSE b

Take(s, n) == SubSeq(s, 1, Min(n, Len(s)))

\* s[from:to] of Python, 0-based and end-exclusive
Slice(s, from, to) == SubSeq(s, Min(from, Len(s)) + 1, Min(to, Len(s)))

Indices(s) == [i \in 1..Len(s) |-> i]

SeqsUpTo(S, n) == UNION {[1..k -> S] : k \in 0..n}

RECURSIVE SumSeq(_)
SumSeq(s) == IF s = <<>> THEN 0 ELSE Head(s) + SumSeq(Tail(s))

-----------------------------------------------------------------------------
(* Sentence units.  A unit is what transcript_text.split('.') yields, after  *)
(* strip(): len is its length, words its number of whitespace-separated      *)
(* words, pct the number of the first match of \d+%|\d+\s*percent (NoPct     *)
(* when the pattern does not occur), key whether it contains one of the      *)
(* key_indicators, quote whether it contains '"', and kwIcon the icon of     *)
(* the first icon_keywords entry occurring in it (NoIcon when none does).    *)

NoPct  == -1
NoIcon == "none"

ShortUnit == [len |-> 5,     words |-> 1,    pct |-> NoPct, key |-> FALSE, quote |-> FALSE, kwIcon |-> NoIcon]
PlainUnit == [len |-> 50,    words |-> 8,    pct |-> NoPct, key |-> FALSE, quote |-> FALSE, kwIcon |-> NoIcon]
KeyUnit   == [len |-> 50,    words |-> 8,    pct |-> 40,    key |-> TRUE,  quote |-> FALSE, kwIcon |-> "TrendingUp"]
StatUnit  == [len |-> 60,    words |-> 9,    pct |-> 150,   key |-> TRUE,  quote |-> TRUE,  kwIcon |-> NoIcon]
LongUnit  == [len |-> 20000, words |-> 2500, pct |-> NoPct, key |-> TRUE,  quote |-> FALSE, kwIcon |-> NoIcon]

SentenceUnits == {ShortUnit, PlainUnit, KeyUnit, StatUnit, LongUnit}

\* split('.') never yields an empty list
Transcripts == SeqsUpTo(SentenceUnits, MaxSentences) \ {<<>>}

\* len(transcript_text): the units and the '.' between them
TextLen(sentences) == SumSeq([i \in 1..Len(sentences) |-> sentences[i].len]) + (Len(sentences) - 1)

\* len(transcript_text.split())
WordCount(sentences) == SumSeq([i \in 1..Len(sentences) |-> sentences[i].words])

-----------------------------------------------------------------------------
(* Key points, statistics, quotes and titles.  A string the code cuts from  *)
(* sentence unit i of the transcript is named by i; a string of the draft   *)
(* by its position in the draft; the two filler strings by their origin.    *)

Point(origin, n, kwIcon) == [origin |-> origin, n |-> n, kwIcon |-> kwIcon]

BasicFiller  == Point("filler_basic", 0, NoIcon)    \* "Key insight extracted from video content"
OpenAIFiller == Point("filler_openai", 0, NoIcon)   \* "Additional insight from the video content"

Stat(origin, n, labelLen, value, percentage) ==
    [origin |-> origin, n |-> n, labelLen |-> labelLen, value |-> value, percentage |-> percentage]

\* icon_keywords[category] for the categories that have a default list
CategoryIcons(category) ==
    CASE category = "education"  -> <<"BookOpen", "GraduationCap", "Lightbulb", "Star", "Brain">>
      [] category = "technology" -> <<"Smartphone", "Zap", "Database", "Code", "Rocket">>
      [] category = "health"     -> <<"Heart", "Activity", "Shield", "Smile", "Apple">>
      [] category = "finance"    -> <<"DollarSign", "BarChart3", "TrendingUp", "PieChart", "CreditCard">>
      [] OTHER                   -> <<"Briefcase", "TrendingUp", "Target", "Award", "Users">>

\* get_content_icons: one icon per key point, the keyword match or else the
\* category default at position len(selected_icons) % len(category_icons)
get_content_icons(key_points, category) ==
    [i \in 1..Len(key_points) |->
        IF key_points[i].kwIcon # NoIcon
        THEN key_points[i].kwIcon
        ELSE CategoryIcons(category)[((i - 1) % Len(CategoryIcons(category))) + 1]]

-----------------------------------------------------------------------------
(* analyze_basic_content *)

\* the units the loop over sentences[:30] does not skip
Processed(sentences) ==
    SelectSeq(Indices(Take(sentences, SentenceWindow)),
              LAMBDA i : sentences[i].len >= MinSentenceLen)

BasicStatistics(sentences) ==
    LET hits == SelectSeq(Processed(sentences), LAMBDA i : sentences[i].pct # NoPct)
    IN  [k \in 1..Len(hits) |->
            Stat("sentence", hits[k],
                 IF sentences[hits[k]].len > MaxLabelLen THEN MaxLabelLen + 3
                                                         ELSE sentences[hits[k]].len,
                 sentences[hits[k]].pct,
                 Min(sentences[hits[k]].pct, MaxPercentage))]

MarkedPoints(sentences) ==
    LET hits == SelectSeq(Processed(sentences),
                          LAMBDA i : sentences[i].key /\ sentences[i].len <= MaxPointLen)
    IN  [k \in 1..Len(hits) |-> Point("sentence", hits[k], sentences[hits[k]].kwIcon)]

BasicQuotes(sentences) ==
    LET hits == SelectSeq(Processed(sentences), LAMBDA i : sentences[i].quote)
    IN  [k \in 1..Len(hits) |-> [origin |-> "sentence", n |-> hits[k]]]

BasicTitle(sentences) ==
    LET clean == SelectSeq(Indices(Take(sentences, TitleWindow)),
                           LAMBDA i : sentences[i].len > MinSentenceLen)
    IN  IF clean = <<>>
        THEN [origin |-> "default", n |-> 0, len |-> 21]     \* "Video Content Summary"
        ELSE [origin |-> "sentence", n |-> clean[1],
              len |-> Min(sentences[clean[1]].len, MaxTitleLen)]

\* sentences[1:8] that are longer than 15 and at most 120 characters
MeaningfulPoints(sentences) ==
    LET window == [k \in 1..Len(Slice(sentences, MeaningfulFrom, MeaningfulTo)) |-> k + MeaningfulFrom]
        hits   == SelectSeq(window, LAMBDA i : sentences[i].len > MeaningfulMinLen
                                              /\ sentences[i].len <= MaxPointLen)
    IN  [k \in 1..Len(hits) |-> Point("sentence", hits[k], sentences[hits[k]].kwIcon)]

\* while len(key_points) < 5: append(filler)
RECURSIVE PadTo(_, _, _)
PadTo(points, n, filler) ==
    IF Len(points) < n THEN PadTo(Append(points, filler), n, filler) ELSE points

BasicKeyPoints(sentences) ==
    LET marked == MarkedPoints(sentences)
        chosen == IF marked = <<>> THEN Take(MeaningfulPoints(sentences), MaxKeyPoints)
                                   ELSE marked
        padded == PadTo(chosen, MinKeyPoints, BasicFiller)
    IN  IF Len(padded) > MaxKeyPoints THEN Take(padded, MaxKeyPoints) ELSE padded

DefaultStatistics(word_count, key_points) ==
    << Stat("default_words", 0, 22, word_count, Min(word_count \div WordsPerPercent, MaxPercentage)),
       Stat("default_points", 0, 21, Len(key_points), Len(key_points) * PercentPerPoint) >>

analyze_basic_content(sentences) ==
    LET key_points == BasicKeyPoints(sentences)
        found      == BasicStatistics(sentences)
        statistics == IF found = <<>> THEN DefaultStatistics(WordCount(sentences), key_points)
                                      ELSE found
    IN  [ mainTitle        |-> BasicTitle(sentences),
          keyPoints        |-> key_points,
          statistics       |-> Take(statistics, MaxStatistics),
          quotes           |-> Take(BasicQuotes(sentences), MaxQuotes),
          category         |-> "business",
          wordCount        |-> WordCount(sentences),
          transcriptLength |-> TextLen(sentences),
          icons            |-> get_content_icons(key_points, "business") ]

-----------------------------------------------------------------------------
(* The language-model draft.  A response either raises (the API call fails), *)
(* is not JSON, or parses to a draft.  The code reads the draft's keyPoints  *)
(* and category keys and passes every other key through untouched.           *)

Absent == "<absent>"     \* the key is missing from the draft

DraftPercentages == <<85, 150, -5>>

\* n statistics whose percentages run through DraftPercentages from offset
DraftStatistics(n, offset) ==
    [j \in 1..n |-> Stat("draft", j, 0, 0,
                         DraftPercentages[((j + offset) % Len(DraftPercentages)) + 1])]

DraftPoints(n) ==
    [j \in 1..n |-> Point("draft", j, IF j % 2 = 1 THEN "Rocket" ELSE NoIcon)]

DraftQuotes(n) == [j \in 1..n |-> [origin |-> "draft", n |-> j]]

DraftCategories == {Absent, "business", "technology", "sports", ""}

Drafts ==
    { [ hasKeyPoints |-> hk, keyPoints |-> IF hk THEN DraftPoints(np) ELSE <<>>,
        statistics |-> DraftStatistics(ns, off), quotes |-> DraftQuotes(nq), category |-> c ] :
        hk \in BOOLEAN, np \in 0..MaxDraftPoints, ns \in 0..MaxDraftStats,
        off \in 0..2, nq \in 0..MaxDraftQuotes, c \in DraftCategories }

NoDraft == [ hasKeyPoints |-> FALSE, keyPoints |-> <<>>, statistics |-> <<>>,
             quotes |-> <<>>, category |-> Absent ]

Responses ==
    { [kind |-> "raise", draft |-> NoDraft], [kind |-> "badjson", draft |-> NoDraft] }
    \cup { [kind |-> "draft", draft |-> d] : d \in Drafts }

-----------------------------------------------------------------------------
(* analyze_with_openai *)

\* words of transcript_text[:room]: whole units while they fit, and of the
\* unit that is cut its words in proportion to the characters kept
RECURSIVE PrefixWords(_, _)
PrefixWords(sentences, room) ==
    IF sentences = <<>> \/ room <= 0 THEN 0
    ELSE IF Head(sentences).len <= room
         THEN Head(sentences).words + PrefixWords(Tail(sentences), room - Head(sentences).len - 1)
         ELSE (room * Head(sentences).words) \div Head(sentences).len

\* the call raises: the API call fails, json.loads fails, or result["keyPoints"]
\* is a KeyError
OpenAIRaises(resp) == resp.kind # "draft" \/ ~resp.draft.hasKeyPoints

\* NormalizeKeyPoints with the truncation branch lost
NormalizeKeyPoints_PadOnly(points) ==
    IF Len(points) < MinKeyPoints THEN PadTo(points, MinKeyPoints, OpenAIFiller) ELSE points

\* NormalizeKeyPoints whose truncation branch drops one point from six on
NormalizeKeyPoints_DropOne(points) ==
    IF Len(points) < MinKeyPoints THEN PadTo(points, MinKeyPoints, OpenAIFiller)
    ELSE IF Len(points) >= MaxKeyPoints THEN Take(points, Len(points) - 1)
    ELSE points

\* NormalizeKeyPoints whose truncation branch keeps the last six points
NormalizeKeyPoints_KeepLast(points) ==
    IF Len(points) < MinKeyPoints THEN PadTo(points, MinKeyPoints, OpenAIFiller)
    ELSE IF Len(points) > MaxKeyPoints
         THEN Slice(points, Len(points) - MaxKeyPoints, Len(points))
    ELSE points

\* the padding and truncation of result["keyPoints"]
NormalizeKeyPoints(points) ==
    IF Len(points) < MinKeyPoints THEN PadTo(points, MinKeyPoints, OpenAIFiller)
    ELSE IF Len(points) > MaxKeyPoints THEN Take(points, MaxKeyPoints)
    ELSE points

analyze_with_openai(sentences, resp) ==
    LET result    == resp.draft
        truncated == TextLen(sentences) > max_chars
    IN  [ mainTitle        |-> [origin |-> "draft", n |-> 0, len |-> 0],
          keyPoints        |-> NormalizeKeyPoints(result.keyPoints),
          statistics       |-> result.statistics,
          quotes           |-> result.quotes,
          category         |-> result.category,
          wordCount        |-> IF truncated THEN PrefixWords(sentences, max_chars)
                                            ELSE WordCount(sentences),
          transcriptLength |-> IF truncated THEN max_chars + 3 ELSE TextLen(sentences),
          icons            |-> get_content_icons(result.keyPoints,
                                   IF result.category = Absent THEN "business"
                                                               ELSE result.category) ]

-----------------------------------------------------------------------------
(* analyze_transcript_content *)

NoAnalysis == [ mainTitle |-> [origin |-> "none", n |-> 0, len |-> 0], keyPoints |-> <<>>,
                statistics |-> <<>>, quotes |-> <<>>, category |-> Absent,
                wordCount |-> 0, transcriptLength |-> 0, icons |-> <<>> ]

\* analyze_transcript_content without the except branch: a failed
\* language-model call yields no analysis
analyze_transcript_content_NoFallback(client, sentences, resp) ==
    IF client
    THEN IF OpenAIRaises(resp) THEN NoAnalysis ELSE analyze_with_openai(sentences, resp)
    ELSE analyze_basic_content(sentences)

analyze_transcript_content(client, sentences, resp) ==
    IF client /\ ~OpenAIRaises(resp)
    THEN analyze_with_openai(sentences, resp)
    ELSE analyze_basic_content(sentences)

-----------------------------------------------------------------------------
(* Texts of the ranking and mapping code: sequences of one-character        *)
(* strings, so that str.lower() and the substring test `a in b` are         *)
(* computed and not assumed.                                                *)

Lower(c) ==
    CASE c = "A" -> "a" [] c = "B" -> "b" [] c = "G" -> "g"
      [] c = "I" -> "i" [] c = "T" -> "t" [] OTHER -> c

LowerText(t) == [i \in 1..Len(t) |-> Lower(t[i])]

\* sub in text
Contains(text, sub) ==
    \E i \in 0..(Len(text) - Len(sub)) : SubSeq(text, i + 1, i + Len(sub)) = sub

Range(s) == {s[i] : i \in 1..Len(s)}

T_business   == <<"b","u","s","i","n","e","s","s">>
T_technology == <<"t","e","c","h","n","o","l","o","g","y">>
T_general    == <<"g","e","n","e","r","a","l">>
T_icon       == <<"i","c","o","n">>
T_quote      == <<"q","u","o","t","e">>
T_empty      == <<>>

-----------------------------------------------------------------------------
(* The icon index (the ChromaDB collection).  A document is an icon with    *)
(* the metadata _add_image_batch stores for it: keywords is the string      *)
(* " ".join(keywords).  An entry is a document with its cosine distance to  *)
(* the query text and its label, the position the index gives it in its     *)
(* own internal order; the index is a function of its state, so it answers  *)
(* a repeated query the same way.                                           *)

\* the value of a metadata or icon "keywords" field: a str or a list of str
StrValue(text)   == [kind |-> "str",  val |-> text]
ListValue(items) == [kind |-> "list", val |-> items]

\* what `for keyword in icon.get('keywords', [])` runs through: the items of
\* a list, the characters of a str
Iterate(keywords) ==
    IF keywords.kind = "list" THEN keywords.val
    ELSE [i \in 1..Len(keywords.val) |-> <<keywords.val[i]>>]

Doc(id, name, cat, keywords) ==
    [id |-> id, name |-> name, category |-> cat, keywords |-> keywords]

\* robot.png, deal.png, work_plan.png as _add_image_batch indexes them
Robot    == Doc("robot_3f", "robot", T_technology, StrValue(T_empty))
Deal     == Doc("deal_9c", "deal", T_business, StrValue(T_empty))
WorkPlan == Doc("work_plan_a1", "work_plan", T_business,
                StrValue(<<"w","o","r","k"," ","p","l","a","n">>))

IconDocs == {Robot, Deal, WorkPlan}

\* the lexicographic order of the icon ids
IdOrder == << "deal_9c", "fallback_0", "fallback_1", "fallback_2", "fallback_3",
              "fallback_4", "fallback_5", "robot_3f", "work_plan_a1" >>

IdRank(id) == CHOOSE i \in 1..Len(IdOrder) : IdOrder[i] = id

Distances == {5, 15, MaxDistance}

Labellings(D) ==
    { lab \in [D -> 1..Cardinality(D)] : \A d, e \in D : d # e => lab[d] # lab[e] }

\* every index over IconDocs: each document absent, or at some distance and
\* at some place of the internal order
Indexes ==
    UNION { { {[doc |-> d, distance |-> f[d], label |-> lab[d]] : d \in D} :
                f \in [D -> Distances], lab \in Labellings(D) } :
            D \in SUBSET IconDocs }

NoCategory == <<"<none>">>     \* category=None

Unavailable == [available |-> FALSE, entries |-> {}]     \* self.collection = None

\* the order of the index's answer: nearest first, and at equal distance
\* the internal order
Before(e, f) ==
    e.distance < f.distance \/ (e.distance = f.distance /\ e.label < f.label)

\* collection.query(query_texts, n_results, where): the n nearest entries that
\* satisfy the filter
Query(entries, where, n) ==
    LET cands == IF where = NoCategory THEN entries
                 ELSE {e \in entries : e.doc.category = where}
        k     == Min(n, Cardinality(cands))
    IN  CHOOSE r \in [1..k -> cands] :
            /\ \A i, j \in 1..k : i < j => Before(r[i], r[j])
            /\ \A e \in cands \ Range(r) : k > 0 /\ Before(r[k], e)

Limits == {1, 2, DefaultLimit, PoolLimit}

CategoryArgs == {NoCategory, T_empty, T_business, T_technology, T_general}

\* one formatted result
FormatIcon(e) ==
    [ id               |-> e.doc.id,
      name             |-> e.doc.name,
      category         |-> e.doc.category,
      keywords         |-> e.doc.keywords,
      similarity_score |-> ScoreScale - e.distance ]

_get_fallback_icons(n) ==
    [ i \in 1..Min(n, FallbackCap) |->
        [ id               |-> IdOrder[i + 1],
          name             |-> "Icon",
          category         |-> T_general,
          keywords         |-> ListValue(<<T_general, T_icon>>),
          similarity_score |-> ScoreScale \div 2 ] ]

\* where_filter = {"category": category} if category else None
WhereFilter(cat) == IF cat = NoCategory \/ cat = T_empty THEN NoCategory ELSE cat

\* FormatResults building the list back to front
FormatResults_Reversed(answer) ==
    [i \in 1..Len(answer) |-> FormatIcon(answer[Len(answer) + 1 - i])]

\* the loop that formats results['ids'][0]
FormatResults(answer) == [i \in 1..Len(answer) |-> FormatIcon(answer[i])]

find_relevant_icons(coll, raises, cat, n) ==
    IF ~coll.available THEN <<>>
    ELSE IF raises THEN _get_fallback_icons(n)
    ELSE FormatResults(Query(coll.entries, WhereFilter(cat), n))

-----------------------------------------------------------------------------
(* _find_best_icon_for_text *)

NoneIcon == [ id |-> "<None>", name |-> "", category |-> T_empty,
              keywords |-> ListValue(<<>>), similarity_score |-> 0 ]

\* the keywords of the icon found in the text, each occurrence counted
KeywordHits(icon, text_lower) ==
    LET keywords == Iterate(icon.keywords)
    IN  Cardinality({ k \in 1..Len(keywords) : Contains(text_lower, LowerText(keywords[k])) })

\* the score the loop body computes for one icon, in tenths
Score(icon, text_lower) ==
    2 * ScoreScale * KeywordHits(icon, text_lower)
    + (IF Contains(text_lower, LowerText(icon.category)) THEN ScoreScale ELSE 0)
    + icon.similarity_score

\* the loop over available_icons from position i on; best is the position of
\* best_icon (0 for None)
RECURSIVE BestLoop(_, _, _, _, _)
BestLoop(available_icons, text_lower, i, best, best_score) ==
    IF i > Len(available_icons) THEN best
    ELSE LET score == Score(available_icons[i], text_lower)
         IN  IF score > best_score
             THEN BestLoop(available_icons, text_lower, i + 1, i, score)
             ELSE BestLoop(available_icons, text_lower, i + 1, best, best_score)

\* _find_best_icon_for_text returning best_icon without `or available_icons[0]`
FindBest_NoFallback(text, available_icons) ==
    IF available_icons = <<>> THEN NoneIcon
    ELSE LET best == BestLoop(available_icons, LowerText(text), 1, 0, 0)
         IN  IF best # 0 THEN available_icons[best] ELSE NoneIcon

_find_best_icon_for_text(text, available_icons) ==
    IF available_icons = <<>> THEN NoneIcon
    ELSE LET best == BestLoop(available_icons, LowerText(text), 1, 0, 0)
         IN  IF best # 0 THEN available_icons[best] ELSE available_icons[1]

-----------------------------------------------------------------------------
(* _map_icons_to_positions *)

Geometry(coord) == [x |-> coord.x, y |-> coord.y, width |-> coord.width, height |-> coord.height]

\* Bound with the guard off by one: `i < len(coords) - 1`
Bound_OffByOne(elements, coords) ==
    SelectSeq(Indices(elements), LAMBDA i : i - 1 < Len(coords) - 1)

\* the positions i (1-based) of enumerate(elements) that pass `i < len(coords)`
Bound(elements, coords) ==
    SelectSeq(Indices(elements), LAMBDA i : i - 1 < Len(coords))

\* MapKeyPoints binding slot i to the i-th key point from the end
MapKeyPoints_Reversed(key_points, coords, pool) ==
    LET kept == Bound(key_points, coords)
    IN  [ k \in 1..Len(kept) |->
            [ index     |-> kept[k] - 1,
              text      |-> key_points[Len(key_points) + 1 - kept[k]],
              position  |-> Geometry(coords[kept[k]]),
              icon      |-> _find_best_icon_for_text(key_points[kept[k]], pool),
              icon_size |-> coords[kept[k]].icon_size ] ]

MapKeyPoints(key_points, coords, pool) ==
    LET kept == Bound(key_points, coords)
    IN  [ k \in 1..Len(kept) |->
            [ index     |-> kept[k] - 1,
              text      |-> key_points[kept[k]],
              position  |-> Geometry(coords[kept[k]]),
              icon      |-> _find_best_icon_for_text(key_points[kept[k]], pool),
              icon_size |-> coords[kept[k]].icon_size ] ]

StatText(stat) == stat.label \o <<" ">> \o stat.value

MapStatistics(statistics, coords, pool) ==
    LET kept == Bound(statistics, coords)
    IN  [ k \in 1..Len(kept) |->
            [ index     |-> kept[k] - 1,
              data      |-> statistics[kept[k]],
              position  |-> Geometry(coords[kept[k]]),
              icon      |-> _find_best_icon_for_text(StatText(statistics[kept[k]]), pool),
              icon_size |-> coords[kept[k]].icon_size ] ]

\* MapQuotes scoring the pool against the quote's own text
MapQuotes_OwnText(quotes, coords, pool) ==
    LET kept == Bound(quotes, coords)
    IN  [ k \in 1..Len(kept) |->
            [ index     |-> kept[k] - 1,
              text      |-> quotes[kept[k]],
              position  |-> Geometry(coords[kept[k]]),
              icon      |-> _find_best_icon_for_text(quotes[kept[k]], pool),
              icon_size |-> coords[kept[k]].icon_size ] ]

MapQuotes(quotes, coords, pool) ==
    LET kept == Bound(quotes, coords)
    IN  [ k \in 1..Len(kept) |->
            [ index     |-> kept[k] - 1,
              text      |-> quotes[kept[k]],
              position  |-> Geometry(coords[kept[k]]),
              icon      |-> _find_best_icon_for_text(T_quote, pool),
              icon_size |-> coords[kept[k]].icon_size ] ]

_map_icons_to_positions(c, t, pool) ==
    [ key_points |-> MapKeyPoints(c.keyPoints, t.coordinates.key_point, pool),
      statistics |-> MapStatistics(c.statistics, t.coordinates.statistic, pool),
      quotes     |-> MapQuotes(c.quotes, t.coordinates.quote, pool),
      title      |-> <<>> ]

NoElements == [key_points |-> <<>>, statistics |-> <<>>, quotes |-> <<>>, title |-> <<>>]

-----------------------------------------------------------------------------
(* Inputs of the mapper *)

T_techbot == <<"T","e","c","h","n","o","l","o","g","y"," ","b","o","t">>   \* "Technology bot"
T_plan    == <<"b","u","s","i","n","e","s","s"," ","p","l","a","n">>   \* "business plan"
T_xyz     == <<"x","y","z">>
T_growth  == <<"G","r","o","w","t","h">>
T_85      == <<"8","5","%">>

MapTexts == {T_techbot, T_plan, T_xyz}

MapStats == << [label |-> T_growth, value |-> T_85, percentage |-> 85],
               [label |-> T_technology, value |-> T_85, percentage |-> 85],
               [label |-> T_xyz, value |-> T_85, percentage |-> 85] >>

MapQuoteTexts == << T_plan, T_xyz, T_techbot >>

Contents ==
    { [ keyPoints  |-> kp,
        statistics |-> [j \in 1..ns |-> MapStats[((j - 1) % Len(MapStats)) + 1]],
        quotes     |-> [j \in 1..nq |-> MapQuoteTexts[((j - 1) % Len(MapQuoteTexts)) + 1]] ] :
        kp \in SeqsUpTo(MapTexts, MaxMapPoints), ns \in 0..MaxMapStats, nq \in 0..MaxMapQuotes }

\* the row of template_icon_coordinates for (kind, element_index), as
\* get_template_coordinates formats it
Slot(row, element_index, size) ==
    [ index |-> element_index, x |-> 100 + 200 * element_index, y |-> 300 * row,
      width |-> 64, height |-> 64, icon_size |-> size ]

\* a template with np key_point slots whose element_index starts at base,
\* ns statistic slots and nq quote slots
Template(np, base, ns, nq) ==
    [ coordinates |->
        [ key_point |-> [j \in 1..np |-> Slot(1, base + j - 1, "medium")],
          statistic |-> [j \in 1..ns |-> Slot(2, j - 1, "large")],
          quote     |-> [j \in 1..nq |-> Slot(3, j - 1, "small")] ] ]

\* a template whose key_point rows start at element_index 1
GapTemplate == Template(2, 1, 1, 1)

Templates ==
    { Template(np, 0, ns, nq) :
        np \in 0..MaxPointSlots, ns \in 0..MaxStatSlots, nq \in 0..MaxQuoteSlots }
    \cup {GapTemplate}

FullTemplate == Template(MaxPointSlots, 0, MaxStatSlots, MaxQuoteSlots)

NoTemplate == Template(0, 0, 0, 0)

NoContent == [keyPoints |-> <<>>, statistics |-> <<>>, quotes |-> <<>>]

\* every list find_relevant_icons can return
ProduciblePools ==
    { find_relevant_icons(coll, raises, cat, n) :
              coll \in {Unavailable} \cup {[available |-> TRUE, entries |-> ix] : ix \in Indexes},
              raises \in BOOLEAN, cat \in CategoryArgs, n \in Limits }

\* three of them: none, the placeholders, an unfiltered result
SamplePools ==
    { <<>>, _get_fallback_icons(2),
      FormatResults(<< [doc |-> Robot, distance |-> 15, label |-> 1],
                       [doc |-> Deal, distance |-> MaxDistance, label |-> 2] >>) }

-----------------------------------------------------------------------------
(* The job pipeline of backend/main.py.  A URL is a sequence of tokens: the *)
(* three prefixes the patterns of extract_video_id look for, "v=", the      *)
(* delimiters of the captured group, and other runs of characters.          *)

Put(f, k, v) == [x \in DOMAIN f \cup {k} |-> IF x = k THEN v ELSE f[x]]

EmptyDict == <<>>     \* {}

WatchPrefix == "youtube.com/watch?"
ShortPrefix == "youtu.be/"
EmbedPrefix == "youtube.com/embed/"

Delimiters == {"&", "?", "#"}     \* [^&\n?#]; no URL of the model has a newline

\* the longest run of non-delimiter tokens of url from position i: ([^&\n?#]+)
RECURSIVE IdRun(_, _)
IdRun(url, i) ==
    IF i > Len(url) \/ url[i] \in Delimiters THEN <<>>
    ELSE <<url[i]>> \o IdRun(url, i + 1)

\* where the group of the first pattern starts if the pattern matches at i
\* (0 if it does not):  (?:youtube\.com\/watch\?v=|youtu\.be\/|youtube\.com\/embed\/)
FirstPatternAt(url, i) ==
    IF url[i] = WatchPrefix /\ i < Len(url) /\ url[i + 1] = "v=" THEN i + 2
    ELSE IF url[i] \in {ShortPrefix, EmbedPrefix} THEN i + 1
    ELSE 0

\* the places from which the first pattern matches with a non-empty group
FirstPatternMatches(url) ==
    {i \in 1..Len(url) : FirstPatternAt(url, i) # 0 /\ IdRun(url, FirstPatternAt(url, i)) # <<>>}

\* the second pattern, youtube\.com\/watch\?.*v=([^&\n?#]+): the places of a
\* "v=" after the watch prefix at i that a non-empty group follows
SecondPatternAt(url, i) ==
    IF url[i] # WatchPrefix THEN {}
    ELSE {k \in (i + 1)..Len(url) : url[k] = "v=" /\ IdRun(url, k + 1) # <<>>}

SecondPatternMatches(url) == {i \in 1..Len(url) : SecondPatternAt(url, i) # {}}

SetMin(S) == CHOOSE m \in S : \A n \in S : m <= n

SetMax(S) == CHOOSE m \in S : \A n \in S : m >= n

InvalidURL == <<>>     \* raise ValueError("Invalid YouTube URL"): no video id is empty

\* extract_video_id: re.search takes the leftmost match; the greedy .* of the
\* second pattern takes the last "v=" that lets the group match
extract_video_id(url) ==
    IF FirstPatternMatches(url) # {}
    THEN IdRun(url, FirstPatternAt(url, SetMin(FirstPatternMatches(url))))
    ELSE IF SecondPatternMatches(url) # {}
    THEN IdRun(url, SetMax(SecondPatternAt(url, SetMin(SecondPatternMatches(url)))) + 1)
    ELSE InvalidURL

U_watch == <<"https://www.", WatchPrefix, "v=", "abc">>
U_late  == <<"https://", ShortPrefix, "?", WatchPrefix, "t=1", "&", "v=", "xyz", "#", "top">>
U_hash  == <<"https://www.", WatchPrefix, "v=", "#", "abc">>
U_other == <<"https://invalid-url.com">>

URLs == {U_watch, U_late, U_hash, U_other}

get_video_metadata(video_id) ==
    [ id |-> video_id, title |-> <<"YouTube Video ">> \o video_id, duration |-> "Unknown",
      description |-> "Video description",
      thumbnailUrl |-> <<"https://img.youtube.com/vi/">> \o video_id \o <<"/maxresdefault.jpg">>,
      channelName |-> "YouTube Channel" ]

Status(status, stage, progress, message) ==
    [status |-> status, stage |-> stage, progress |-> progress, message |-> message]

-----------------------------------------------------------------------------
(* Transcript retrieval of process_youtube_video (main.py 392-452).  The    *)
(* transcript source is described by what each of its calls does.           *)

TranscriptErrors == {"TranscriptsDisabled", "NoTranscriptFound", "VideoUnavailable"}

Source(list, english, others, direct_en, direct_any, data) ==
    [ list       |-> list,           \* YouTubeTranscriptApi.list_transcripts: "ok" | "raises"
      english    |-> english,        \* find_transcript(['en']).fetch()
      others     |-> others,         \* fetch() of some other listed transcript / of none
      direct_en  |-> direct_en,      \* get_transcript(video_id, languages=[...])
      direct_any |-> direct_any,     \* get_transcript(video_id): "ok" or what it raises
      data       |-> data ]          \* what a successful fetch delivers: "text" | "blank" | "empty"

TranscriptSources ==
    { Source("ok", "ok", "ok", "ok", "ok", "text"),
      Source("ok", "raises", "ok", "ok", "ok", "text"),
      Source("ok", "raises", "raises", "ok", "ok", "text"),
      Source("ok", "ok", "ok", "ok", "ok", "blank"),
      Source("ok", "ok", "ok", "ok", "ok", "empty"),
      Source("raises", "raises", "raises", "ok", "ok", "text"),
      Source("raises", "raises", "raises", "raises", "ok", "text"),
      Source("raises", "raises", "raises", "raises", "other", "text") }
    \cup { Source("raises", "raises", "raises", "raises", e, "text") : e \in TranscriptErrors }

\* the transcript of every video that has one
JobTranscript == <<KeyUnit, PlainUnit>>

\* the inner try block: the text, or which except clause handles the failure
RetrieveTranscript(src) ==
    LET fetched ==
            IF src.list = "ok" THEN src.english = "ok" \/ src.others = "ok"
            ELSE src.direct_en = "ok" \/ src.direct_any = "ok"
        raised == src.list = "raises" /\ src.direct_en = "raises" /\ src.direct_any # "ok"
    IN  IF raised
        THEN IF src.direct_any \in TranscriptErrors
             THEN [kind |-> "api_error", text |-> <<>>]
             ELSE [kind |-> "other_error", text |-> <<>>]
        ELSE IF ~fetched \/ src.data = "empty"
        THEN [kind |-> "other_error", text |-> <<>>]     \* "No transcript data retrieved"
        ELSE IF src.data = "blank"
        THEN [kind |-> "other_error", text |-> <<>>]     \* "Empty transcript received"
        ELSE [kind |-> "text", text |-> JobTranscript]

\* the responses of the language model to the transcript of a job
JobResponses ==
    { [kind |-> "raise", draft |-> NoDraft],
      [kind |-> "draft",
       draft |-> [ hasKeyPoints |-> TRUE, keyPoints |-> DraftPoints(3),
                   statistics |-> DraftStatistics(1, 0), quotes |-> DraftQuotes(1),
                   category |-> "technology" ]] }

-----------------------------------------------------------------------------
(* TemplateService.get_template_coordinates and                             *)
(* InfographicGenerator.generate_infographic_data                           *)

default_template_id == "modern-business"

TemplateIds == {default_template_id, "unknown-template"}

\* the template database: unreachable, or reachable with some templates
StoreDown == [up |-> FALSE, templates |-> {}]

Stores == {StoreDown, [up |-> TRUE, templates |-> {}],
           [up |-> TRUE, templates |-> {default_template_id}]}

get_template_coordinates(store, template_id) ==
    IF ~store.up THEN EmptyDict                              \* except Exception: return {}
    ELSE IF template_id \notin store.templates THEN EmptyDict     \* if not template: return {}
    ELSE [ template      |-> [id |-> template_id, width |-> 800, height |-> 1200],
           coordinates   |-> FullTemplate.coordinates,
           color_schemes |-> <<"default">> ]

T_insight == <<"i","n","s","i","g","h","t">>

\* the characters of the strings of an analysis: a string that carries a
\* keyword of get_content_icons reads "Growth", a filler "insight", any
\* other "business plan"
Characters(str) ==
    IF str.origin \in {"filler_basic", "filler_openai"} THEN T_insight
    ELSE IF str.kwIcon # NoIcon THEN T_growth
    ELSE T_plan

CategoryText(category) ==
    CASE category = "technology" -> T_technology
      [] category = ""           -> T_empty
      [] OTHER                   -> T_business

\* the content analysis as the mapper reads it
MapperContent(content_analysis) ==
    [ keyPoints  |-> [i \in 1..Len(content_analysis.keyPoints) |->
                        Characters(content_analysis.keyPoints[i])],
      statistics |-> [i \in 1..Len(content_analysis.statistics) |->
                        [ label |-> T_growth, value |-> T_85,
                          percentage |-> content_analysis.statistics[i].percentage ]],
      quotes     |-> [i \in 1..Len(content_analysis.quotes) |-> T_plan] ]

\* generate_infographic_data; fault: an exception inside its try block
generate_infographic_data(content_analysis, template_id, store, coll, fault) ==
    LET template_coordinates  == get_template_coordinates(store, template_id)
        category       == IF content_analysis.category = Absent THEN "business"
                          ELSE content_analysis.category
        relevant_icons == find_relevant_icons(coll, FALSE, CategoryText(category), PoolLimit)
    IN  IF template_coordinates = EmptyDict THEN EmptyDict          \* "Template ... not found"
        ELSE IF fault THEN EmptyDict                         \* except Exception: return {}
        ELSE [ template            |-> template_coordinates.template,
               content             |-> content_analysis,
               positioned_elements |-> _map_icons_to_positions(MapperContent(content_analysis),
                                                               template_coordinates, relevant_icons),
               color_schemes       |-> template_coordinates.color_schemes,
               dimensions          |-> [ width  |-> template_coordinates.template.width,
                                         height |-> template_coordinates.template.height ] ]

\* whether an exception can be raised inside the try block: up to the test
\* of template_data nothing raises, get_template_coordinates catches its own
Faults(template_id, store) ==
    IF get_template_coordinates(store, template_id) = EmptyDict THEN {FALSE} ELSE BOOLEAN

\* the icon index of the running service
JobIndex ==
    [ available |-> TRUE,
      entries   |-> { [doc |-> Deal, distance |-> 5, label |-> 1],
                      [doc |-> Robot, distance |-> 15, label |-> 2] } ]

-----------------------------------------------------------------------------
(* Specifications *)

NoJob == 0

NoReply == [op |-> "none", request |-> <<>>, job |-> NoJob, code |-> 0]

JobsIdle ==
    /\ processing_jobs = <<>>
    /\ generated_infographics = <<>>
    /\ tasks = <<>>
    /\ template_store = StoreDown
    /\ reply = NoReply

MapIdle ==
    /\ content = NoContent
    /\ template_data = NoTemplate
    /\ icons = <<>>
    /\ positioned_elements = NoElements
    /\ mpc = "idle"

RankIdle ==
    /\ collection = Unavailable
    /\ queryRaises = FALSE
    /\ rcategory = NoCategory
    /\ rlimit = 0
    /\ indexAnswer = <<>>
    /\ rankResult = <<>>
    /\ rankAgain = <<>>
    /\ rpc = "idle"

AnalyzeIdle ==
    /\ openai_client = FALSE
    /\ transcript = <<ShortUnit>>
    /\ response = [kind |-> "raise", draft |-> NoDraft]
    /\ analysis = NoAnalysis
    /\ apc = "idle"

\* transcripts paired with a parsed draft: one short, one beyond max_chars
DraftTranscripts == { <<PlainUnit>>, <<LongUnit, PlainUnit>> }

InitAnalyze ==
    /\ RankIdle
    /\ MapIdle
    /\ JobsIdle
    /\ apc = "start"
    /\ analysis = NoAnalysis
    /\ \/ /\ openai_client = FALSE
          /\ response = [kind |-> "raise", draft |-> NoDraft]
          /\ transcript \in Transcripts
       \/ /\ openai_client = TRUE
          /\ response \in Responses
          /\ transcript \in DraftTranscripts

AnalyzeTranscriptContent ==
    /\ apc = "start"
    /\ analysis' = analyze_transcript_content(openai_client, transcript, response)
    /\ apc' = "done"
    /\ UNCHANGED <<openai_client, transcript, response>>
    /\ UNCHANGED <<rankVars, mapVars, jobVars>>

NextAnalyze == AnalyzeTranscriptContent

SpecAnalyze == InitAnalyze /\ [][NextAnalyze]_vars


InitRank ==
    /\ AnalyzeIdle
    /\ MapIdle
    /\ JobsIdle
    /\ rpc = "start"
    /\ indexAnswer = <<>>
    /\ rankResult = <<>>
    /\ rankAgain = <<>>
    /\ rcategory \in CategoryArgs
    /\ rlimit \in Limits
    /\ \/ collection = Unavailable /\ queryRaises = FALSE
       \/ /\ collection \in {[available |-> TRUE, entries |-> ix] : ix \in Indexes}
          /\ queryRaises \in BOOLEAN

\* what collection.query hands back during a call: nothing when the call
\* does not reach it or it raises
Answered(coll, raises, cat, n) ==
    IF coll.available /\ ~raises THEN Query(coll.entries, WhereFilter(cat), n) ELSE <<>>

FindRelevantIcons ==
    /\ rpc = "start"
    /\ indexAnswer' = Answered(collection, queryRaises, rcategory, rlimit)
    /\ rankResult' = find_relevant_icons(collection, queryRaises, rcategory, rlimit)
    /\ rpc' = "done"
    /\ UNCHANGED <<collection, queryRaises, rcategory, rlimit, rankAgain>>
    /\ UNCHANGED <<analyzeVars, mapVars, jobVars>>

\* the same call once more, the index unchanged
FindRelevantIconsAgain ==
    /\ rpc = "done"
    /\ indexAnswer' = Answered(collection, queryRaises, rcategory, rlimit)
    /\ rankAgain' = find_relevant_icons(collection, queryRaises, rcategory, rlimit)
    /\ rpc' = "again"
    /\ UNCHANGED <<collection, queryRaises, rcategory, rlimit, rankResult>>
    /\ UNCHANGED <<analyzeVars, mapVars, jobVars>>

NextRank == FindRelevantIcons \/ FindRelevantIconsAgain

SpecRank == InitRank /\ [][NextRank]_vars

InitMap ==
    /\ AnalyzeIdle
    /\ RankIdle
    /\ JobsIdle
    /\ mpc = "start"
    /\ positioned_elements = NoElements
    /\ content \in Contents
    /\ \/ template_data \in Templates /\ icons \in SamplePools
       \/ template_data = FullTemplate /\ icons \in ProduciblePools

MapIconsToPositions ==
    /\ mpc = "start"
    /\ positioned_elements' = _map_icons_to_positions(content, template_data, icons)
    /\ mpc' = "done"
    /\ UNCHANGED <<content, template_data, icons>>
    /\ UNCHANGED <<analyzeVars, rankVars, jobVars>>

NextMap == MapIconsToPositions

SpecMap == InitMap /\ [][NextMap]_vars


-----------------------------------------------------------------------------
(* The jobs: generate_infographic, the background task process_youtube_video *)
(* and the read endpoints.  The task runs on the event loop: what lies       *)
(* between two `await asyncio.sleep` is one step.                            *)

JobIds == 1..MaxJobs     \* the values uuid.uuid4() delivers

RequestIds == 1..(MaxJobs + 1)     \* the job ids clients ask for: one is never issued

NoTask == [ pc |-> "none", url |-> <<>>, video_metadata |-> EmptyDict,
            transcript_text |-> <<>>, content_analysis |-> NoAnalysis ]

InitJobs ==
    /\ MapIdle
    /\ openai_client = TRUE
    /\ transcript = <<ShortUnit>>
    /\ response = [kind |-> "raise", draft |-> NoDraft]
    /\ analysis = NoAnalysis
    /\ apc = "idle"
    /\ collection = JobIndex
    /\ queryRaises = FALSE
    /\ rcategory = NoCategory
    /\ rlimit = 0
    /\ indexAnswer = <<>>
    /\ rankResult = <<>>
    /\ rankAgain = <<>>
    /\ rpc = "idle"
    /\ processing_jobs = <<>>
    /\ generated_infographics = <<>>
    /\ tasks = <<>>
    /\ template_store \in Stores
    /\ reply = NoReply

\* generate_infographic creating the job before it validates the URL
GenerateInfographic_JobFirst ==
    /\ \E url \in URLs, job_id \in JobIds \ DOMAIN processing_jobs :
        /\ processing_jobs' = Put(processing_jobs, job_id,
               Status("processing", "Starting analysis...", 0, "Initializing"))
        /\ IF extract_video_id(url) = InvalidURL
           THEN /\ reply' = [op |-> "generate", request |-> url, job |-> NoJob, code |-> 400]
                /\ UNCHANGED tasks
           ELSE /\ tasks' = Put(tasks, job_id, [NoTask EXCEPT !.pc = "scheduled", !.url = url])
                /\ reply' = [op |-> "generate", request |-> url, job |-> job_id, code |-> 200]
        /\ UNCHANGED generated_infographics
    /\ UNCHANGED <<template_store, analyzeVars, rankVars, mapVars>>

\* generate_infographic without the initial status record
GenerateInfographic_NoRecord ==
    /\ \E url \in URLs :
        IF extract_video_id(url) = InvalidURL
        THEN /\ reply' = [op |-> "generate", request |-> url, job |-> NoJob, code |-> 400]
             /\ UNCHANGED <<processing_jobs, generated_infographics, tasks>>
        ELSE \E job_id \in JobIds \ DOMAIN tasks :
             /\ tasks' = Put(tasks, job_id, [NoTask EXCEPT !.pc = "scheduled", !.url = url])
             /\ reply' = [op |-> "generate", request |-> url, job |-> job_id, code |-> 200]
             /\ UNCHANGED <<processing_jobs, generated_infographics>>
    /\ UNCHANGED <<template_store, analyzeVars, rankVars, mapVars>>

\* POST /api/generate
GenerateInfographic ==
    /\ \E url \in URLs :
        IF extract_video_id(url) = InvalidURL
        THEN /\ reply' = [op |-> "generate", request |-> url, job |-> NoJob, code |-> 400]
             /\ UNCHANGED <<processing_jobs, generated_infographics, tasks>>
        ELSE \E job_id \in JobIds \ DOMAIN processing_jobs :
             /\ processing_jobs' = Put(processing_jobs, job_id,
                    Status("processing", "Starting analysis...", 0, "Initializing"))
             /\ tasks' = Put(tasks, job_id, [NoTask EXCEPT !.pc = "scheduled", !.url = url])
             /\ reply' = [op |-> "generate", request |-> url, job |-> job_id, code |-> 200]
             /\ UNCHANGED generated_infographics
    /\ UNCHANGED <<template_store, analyzeVars, rankVars, mapVars>>

\* Advance keeping one status for all jobs: every record is overwritten
Advance_AllJobs(job_id, status, task) ==
    /\ processing_jobs' = [k \in DOMAIN processing_jobs \cup {job_id} |-> status]
    /\ tasks' = [tasks EXCEPT ![job_id] = task]

\* the task sets the status of its job and moves on
Advance(job_id, status, task) ==
    /\ processing_jobs' = Put(processing_jobs, job_id, status)
    /\ tasks' = [tasks EXCEPT ![job_id] = task]

\* main.py 369-377
StartTask(job_id) ==
    /\ job_id \in DOMAIN tasks
    /\ tasks[job_id].pc = "scheduled"
    /\ Advance(job_id,
               Status("processing", "Extracting video metadata...", 10, "Getting video information"),
               [tasks[job_id] EXCEPT !.pc = "metadata"])
    /\ UNCHANGED <<generated_infographics, reply, template_store, analyzeVars, rankVars, mapVars>>

\* main.py 380-390, and 522-529 when extract_video_id raises
ExtractMetadata(job_id) ==
    /\ job_id \in DOMAIN tasks
    /\ tasks[job_id].pc = "metadata"
    /\ LET video_id == extract_video_id(tasks[job_id].url)
       IN  IF video_id = InvalidURL
           THEN Advance(job_id,
                        Status("error", "Processing failed", 0, "Invalid YouTube URL"),
                        [tasks[job_id] EXCEPT !.pc = "returned"])
           ELSE Advance(job_id,
                        Status("processing", "Downloading transcript...", 25, "Fetching video transcript"),
                        [tasks[job_id] EXCEPT !.pc = "transcript",
                                              !.video_metadata = get_video_metadata(video_id)])
    /\ UNCHANGED <<generated_infographics, reply, template_store, analyzeVars, rankVars, mapVars>>

\* GetTranscript without the inner except clauses: the outer one handles
\* a failed retrieval
GetTranscript_OuterHandler(job_id) ==
    /\ job_id \in DOMAIN tasks
    /\ tasks[job_id].pc = "transcript"
    /\ \E src \in TranscriptSources :
         LET got == RetrieveTranscript(src)
         IN  IF got.kind # "text"
             THEN Advance(job_id,
                          Status("error", "Processing failed", 0, "No transcript data retrieved"),
                          [tasks[job_id] EXCEPT !.pc = "returned"])
             ELSE Advance(job_id,
                          Status("processing", "Analyzing content and generating key points...", 50,
                                 "AI-powered content analysis in progress"),
                          [tasks[job_id] EXCEPT !.pc = "analyze", !.transcript_text = got.text])
    /\ UNCHANGED <<generated_infographics, reply, template_store, analyzeVars, rankVars, mapVars>>

\* main.py 393-461
GetTranscript(job_id) ==
    /\ job_id \in DOMAIN tasks
    /\ tasks[job_id].pc = "transcript"
    /\ \E src \in TranscriptSources :
         LET got == RetrieveTranscript(src)
         IN  CASE got.kind = "api_error" ->
                    Advance(job_id,
                            Status("error", "Transcript unavailable", 25,
                                   "This video doesn't have accessible transcripts."),
                            [tasks[job_id] EXCEPT !.pc = "returned"])
               [] got.kind = "other_error" ->
                    Advance(job_id,
                            Status("error", "Transcript unavailable", 25,
                                   "Could not retrieve transcript."),
                            [tasks[job_id] EXCEPT !.pc = "returned"])
               [] OTHER ->
                    Advance(job_id,
                            Status("processing", "Analyzing content and generating key points...", 50,
                                   "AI-powered content analysis in progress"),
                            [tasks[job_id] EXCEPT !.pc = "analyze", !.transcript_text = got.text])
    /\ UNCHANGED <<generated_infographics, reply, template_store, analyzeVars, rankVars, mapVars>>

\* main.py 464-473
AnalyzeContent(job_id) ==
    /\ job_id \in DOMAIN tasks
    /\ tasks[job_id].pc = "analyze"
    /\ \E resp \in JobResponses :
         Advance(job_id,
                 Status("processing", "Preparing infographic content...", 70,
                        "Organizing content for visualization"),
                 [tasks[job_id] EXCEPT
                     !.pc = "prepare",
                     !.content_analysis =
                         analyze_transcript_content(openai_client, tasks[job_id].transcript_text, resp)])
    /\ UNCHANGED <<generated_infographics, reply, template_store, analyzeVars, rankVars, mapVars>>

\* SelectIcons reporting a progress below that of the step before it
SelectIcons_Regress(job_id) ==
    /\ job_id \in DOMAIN tasks
    /\ tasks[job_id].pc = "prepare"
    /\ Advance(job_id,
               Status("processing", "Selecting icons and positioning elements...", 60,
                      "Mapping content to template coordinates"),
               [tasks[job_id] EXCEPT !.pc = "position"])
    /\ UNCHANGED <<generated_infographics, reply, template_store, analyzeVars, rankVars, mapVars>>

\* main.py 476-482
SelectIcons(job_id) ==
    /\ job_id \in DOMAIN tasks
    /\ tasks[job_id].pc = "prepare"
    /\ Advance(job_id,
               Status("processing", "Selecting icons and positioning elements...", 85,
                      "Mapping content to template coordinates"),
               [tasks[job_id] EXCEPT !.pc = "position"])
    /\ UNCHANGED <<generated_infographics, reply, template_store, analyzeVars, rankVars, mapVars>>

\* main.py 485-491
Finalize(job_id) ==
    /\ job_id \in DOMAIN tasks
    /\ tasks[job_id].pc = "position"
    /\ Advance(job_id,
               Status("processing", "Finalizing and optimizing...", 100, "Preparing download"),
               [tasks[job_id] EXCEPT !.pc = "generate"])
    /\ UNCHANGED <<generated_infographics, reply, template_store, analyzeVars, rankVars, mapVars>>

\* transcript_text[:500] + "..." if len(transcript_text) > 500 else transcript_text
Excerpt(transcript_text) ==
    [len |-> Min(TextLen(transcript_text), 500), ellipsis |-> TextLen(transcript_text) > 500]

\* Complete without lines 515-520: the job is not marked as completed
Complete_NotMarked(job_id) ==
    /\ job_id \in DOMAIN tasks
    /\ tasks[job_id].pc = "generate"
    /\ \E fault \in Faults(default_template_id, template_store) :
         generated_infographics' = Put(generated_infographics, job_id,
            [ id             |-> job_id,
              videoMetadata  |-> tasks[job_id].video_metadata,
              analysis       |-> tasks[job_id].content_analysis,
              templateData   |-> generate_infographic_data(tasks[job_id].content_analysis,
                                     default_template_id, template_store, collection, fault),
              templateType   |-> default_template_id,
              createdAt      |-> "now",
              transcriptText |-> Excerpt(tasks[job_id].transcript_text) ])
    /\ tasks' = [tasks EXCEPT ![job_id].pc = "returned"]
    /\ UNCHANGED <<processing_jobs, reply, template_store, analyzeVars, rankVars, mapVars>>

\* Complete without line 512: the infographic is not stored
Complete_NotStored(job_id) ==
    /\ job_id \in DOMAIN tasks
    /\ tasks[job_id].pc = "generate"
    /\ Advance(job_id,
               Status("completed", "Infographic generated successfully!", 100, "Ready for download"),
               [tasks[job_id] EXCEPT !.pc = "returned"])
    /\ UNCHANGED <<generated_infographics, reply, template_store, analyzeVars, rankVars, mapVars>>

\* main.py 493-520
Complete(job_id) ==
    /\ job_id \in DOMAIN tasks
    /\ tasks[job_id].pc = "generate"
    /\ \E fault \in Faults(default_template_id, template_store) :
         generated_infographics' = Put(generated_infographics, job_id,
            [ id             |-> job_id,
              videoMetadata  |-> tasks[job_id].video_metadata,
              analysis       |-> tasks[job_id].content_analysis,
              templateData   |-> generate_infographic_data(tasks[job_id].content_analysis,
                                     default_template_id, template_store, collection, fault),
              templateType   |-> default_template_id,
              createdAt      |-> "now",
              transcriptText |-> Excerpt(tasks[job_id].transcript_text) ])
    /\ Advance(job_id,
               Status("completed", "Infographic generated successfully!", 100, "Ready for download"),
               [tasks[job_id] EXCEPT !.pc = "returned"])
    /\ UNCHANGED <<reply, template_store, analyzeVars, rankVars, mapVars>>

\* GET /api/status/{job_id}
get_processing_status(jobs, job_id) ==
    IF job_id \notin DOMAIN jobs
    THEN [code |-> 404, body |-> Status("", "", 0, "Job not found")]
    ELSE [code |-> 200, body |-> jobs[job_id]]

GetProcessingStatus ==
    \E job_id \in RequestIds :
        /\ reply' = [op |-> "status", request |-> <<>>, job |-> job_id,
                     code |-> get_processing_status(processing_jobs, job_id).code]
        /\ UNCHANGED <<processing_jobs, generated_infographics, tasks, template_store, analyzeVars, rankVars, mapVars>>

\* GET /api/infographic/{job_id}
get_infographic(infographics, job_id) ==
    IF job_id \notin DOMAIN infographics
    THEN [code |-> 404, body |-> EmptyDict]
    ELSE [code |-> 200, body |-> infographics[job_id]]

GetInfographic ==
    \E job_id \in JobIds :
        /\ reply' = [op |-> "infographic", request |-> <<>>, job |-> job_id,
                     code |-> get_infographic(generated_infographics, job_id).code]
        /\ UNCHANGED <<processing_jobs, generated_infographics, tasks, template_store, analyzeVars, rankVars, mapVars>>

\* generate_with_template cutting the stored key points to those the new
\* layout positions
GenerateWithTemplate_Truncating ==
    /\ \E job_id \in JobIds, template_id \in TemplateIds :
        IF job_id \notin DOMAIN generated_infographics
        THEN /\ reply' = [op |-> "template", request |-> <<template_id>>, job |-> job_id, code |-> 404]
             /\ UNCHANGED <<processing_jobs, generated_infographics, tasks>>
        ELSE /\ \E fault \in Faults(template_id, template_store) :
                  LET complete_infographic ==
                          generate_infographic_data(generated_infographics[job_id].analysis,
                              template_id, template_store, collection, fault)
                      positioned ==
                          IF complete_infographic = EmptyDict THEN 0
                          ELSE Len(complete_infographic.positioned_elements.key_points)
                  IN  generated_infographics' =
                        [generated_infographics EXCEPT
                            ![job_id].templateData = complete_infographic,
                            ![job_id].templateType = template_id,
                            ![job_id].analysis.keyPoints = Take(@, positioned)]
             /\ reply' = [op |-> "template", request |-> <<template_id>>, job |-> job_id, code |-> 200]
             /\ UNCHANGED <<processing_jobs, tasks>>
    /\ UNCHANGED <<template_store, analyzeVars, rankVars, mapVars>>

\* POST /api/infographic/generate-with-template
GenerateWithTemplate ==
    /\ \E job_id \in JobIds, template_id \in TemplateIds :
        IF job_id \notin DOMAIN generated_infographics
        THEN /\ reply' = [op |-> "template", request |-> <<template_id>>, job |-> job_id, code |-> 404]
             /\ UNCHANGED <<processing_jobs, generated_infographics, tasks>>
        ELSE /\ \E fault \in Faults(template_id, template_store) :
                  generated_infographics' =
                    [generated_infographics EXCEPT
                        ![job_id].templateData =
                            generate_infographic_data(generated_infographics[job_id].analysis,
                                template_id, template_store, collection, fault),
                        ![job_id].templateType = template_id]
             /\ reply' = [op |-> "template", request |-> <<template_id>>, job |-> job_id, code |-> 200]
             /\ UNCHANGED <<processing_jobs, tasks>>
    /\ UNCHANGED <<template_store, analyzeVars, rankVars, mapVars>>

NextJobs ==
    \/ GenerateInfographic
    \/ \E job_id \in JobIds : StartTask(job_id)
    \/ \E job_id \in JobIds : ExtractMetadata(job_id)
    \/ \E job_id \in JobIds : GetTranscript(job_id)
    \/ \E job_id \in JobIds : AnalyzeContent(job_id)
    \/ \E job_id \in JobIds : SelectIcons(job_id)
    \/ \E job_id \in JobIds : Finalize(job_id)
    \/ \E job_id \in JobIds : Complete(job_id)
    \/ GetProcessingStatus
    \/ GetInfographic
    \/ GenerateWithTemplate

SpecJobs == InitJobs /\ [][NextJobs]_vars

\* the task of the job is scheduled or suspended in an await
Pending(job_id) == job_id \in DOMAIN tasks /\ tasks[job_id].pc # "returned"

\* the event loop resumes the task: it runs up to its next await or its end
Resumed(job_id) == Pending(job_id) /\ tasks'[job_id].pc # tasks[job_id].pc

\* The event loop runs every scheduled task and every await returns: weak
\* fairness of Resumed, WF_vars(Resumed(job_id)), in which
\* ENABLED <<Resumed(job_id)>>_vars is written as what it is, Pending(job_id).
SpecJobsLive ==
    SpecJobs /\ \A job_id \in JobIds :
                   []<>(~Pending(job_id)) \/ []<><<Resumed(job_id)>>_vars

-----------------------------------------------------------------------------
(* Several jobs in flight: the requests have been accepted, each with its   *)
(* own uuid, and the event loop interleaves the tasks at their awaits.      *)

ConcurrentJobs == 1..(MaxJobs + 1)

\* the URLs generate_infographic accepts
ValidURLs == {url \in URLs : extract_video_id(url) # InvalidURL}

InitConcurrent ==
    /\ MapIdle
    /\ openai_client = TRUE
    /\ transcript = <<ShortUnit>>
    /\ response = [kind |-> "raise", draft |-> NoDraft]
    /\ analysis = NoAnalysis
    /\ apc = "idle"
    /\ collection = JobIndex
    /\ queryRaises = FALSE
    /\ rcategory = NoCategory
    /\ rlimit = 0
    /\ indexAnswer = <<>>
    /\ rankResult = <<>>
    /\ rankAgain = <<>>
    /\ rpc = "idle"
    /\ processing_jobs =
           [job_id \in ConcurrentJobs |->
               Status("processing", "Starting analysis...", 0, "Initializing")]
    /\ generated_infographics = <<>>
    /\ \E urls \in [ConcurrentJobs -> ValidURLs] :
           tasks = [job_id \in ConcurrentJobs |->
                       [NoTask EXCEPT !.pc = "scheduled", !.url = urls[job_id]]]
    /\ template_store \in Stores
    /\ reply = NoReply

NextConcurrent ==
    \/ \E job_id \in ConcurrentJobs : StartTask(job_id)
    \/ \E job_id \in ConcurrentJobs : ExtractMetadata(job_id)
    \/ \E job_id \in ConcurrentJobs : GetTranscript(job_id)
    \/ \E job_id \in ConcurrentJobs : AnalyzeContent(job_id)
    \/ \E job_id \in ConcurrentJobs : SelectIcons(job_id)
    \/ \E job_id \in ConcurrentJobs : Finalize(job_id)
    \/ \E job_id \in ConcurrentJobs : Complete(job_id)

SpecConcurrent == InitConcurrent /\ [][NextConcurrent]_vars

-----------------------------------------------------------------------------
(* Properties of the content analysis (SpecAnalyze) *)

\* the language-model path produced the analysis
ByOpenAI == openai_client /\ ~OpenAIRaises(response)

\* C1: once analyze_transcript_content has returned, its analysis has at
\* least 5 and at most 6 key points, on the language-model path and on the
\* fallback path.
C1_KeyPointsFiveToSix ==
    apc = "done" => (Len(analysis.keyPoints) >= 5 /\ Len(analysis.keyPoints) <= 6)

C1_Witness ==
    /\ apc = "done"
    /\ ByOpenAI
    /\ Len(response.draft.keyPoints) > 6
    /\ Len(analysis.keyPoints) = 6

\* C2: the returned analysis has at most 4 statistics and at most 2 quotes,
\* whichever path produced it.
C2_StatisticsAndQuotesCapped ==
    apc = "done" => (Len(analysis.statistics) <= 4 /\ Len(analysis.quotes) <= 2)

\* C3: the category of the returned analysis is one of the six vocabulary
\* words, and a draft whose category is missing or is another value yields
\* "business".
C3_CategoryInVocabulary ==
    apc = "done" =>
        /\ analysis.category \in Vocabulary
        /\ (ByOpenAI /\ response.draft.category \notin Vocabulary
               => analysis.category = "business")

\* C4: every statistic of the returned analysis has a percentage between 0
\* and 100 inclusive.
C4_PercentageInRange ==
    apc = "done" =>
        \A i \in 1..Len(analysis.statistics) :
            /\ analysis.statistics[i].percentage >= 0
            /\ analysis.statistics[i].percentage <= 100

-----------------------------------------------------------------------------
(* Properties of the layout mapper (SpecMap) *)

Ascending(entries) ==
    \A k, l \in 1..Len(entries) : k < l => entries[k].index < entries[l].index

\* C5: the mapper never reorders: an output entry with index i carries the
\* i-th content element of its kind (key point text, statistic record, quote
\* text), and the entries of each kind are in ascending index order.
C5_NeverReorders ==
    mpc = "done" =>
        /\ \A k \in 1..Len(positioned_elements.key_points) :
              LET e == positioned_elements.key_points[k]
              IN  e.index + 1 <= Len(content.keyPoints) /\ e.text = content.keyPoints[e.index + 1]
        /\ \A k \in 1..Len(positioned_elements.statistics) :
              LET e == positioned_elements.statistics[k]
              IN  e.index + 1 <= Len(content.statistics) /\ e.data = content.statistics[e.index + 1]
        /\ \A k \in 1..Len(positioned_elements.quotes) :
              LET e == positioned_elements.quotes[k]
              IN  e.index + 1 <= Len(content.quotes) /\ e.text = content.quotes[e.index + 1]
        /\ Ascending(positioned_elements.key_points)
        /\ Ascending(positioned_elements.statistics)
        /\ Ascending(positioned_elements.quotes)

C5_Witness ==
    /\ mpc = "done"
    /\ Len(positioned_elements.key_points) = 2
    /\ positioned_elements.key_points[1].text # positioned_elements.key_points[2].text
    /\ Len(positioned_elements.quotes) = 1

\* the entries are the first ones of the content: indices 0, 1, ..., n-1
FirstOnes(entries) == \A k \in 1..Len(entries) : entries[k].index = k - 1

\* C6: for each kind the number of positioned elements is the minimum of the
\* number of content elements and the number of template slots of that kind,
\* they are the first ones in content order, and a kind without slots yields
\* an empty sequence.
C6_TruncatesToSlots ==
    mpc = "done" =>
        /\ Len(positioned_elements.key_points)
              = Min(Len(content.keyPoints), Len(template_data.coordinates.key_point))
        /\ Len(positioned_elements.statistics)
              = Min(Len(content.statistics), Len(template_data.coordinates.statistic))
        /\ Len(positioned_elements.quotes)
              = Min(Len(content.quotes), Len(template_data.coordinates.quote))
        /\ FirstOnes(positioned_elements.key_points)
        /\ FirstOnes(positioned_elements.statistics)
        /\ FirstOnes(positioned_elements.quotes)

C6_Witness ==
    /\ mpc = "done"
    /\ Len(template_data.coordinates.key_point) = 1
    /\ Len(content.keyPoints) = 2
    /\ Len(positioned_elements.key_points) = 1
    /\ Len(content.quotes) = 2
    /\ Len(template_data.coordinates.quote) = 0
    /\ positioned_elements.quotes = <<>>

\* the first pool position whose score for the text is the maximum
FirstMaximum(pool, text) ==
    CHOOSE i \in 1..Len(pool) :
        \A j \in 1..Len(pool) :
            /\ Score(pool[j], LowerText(text)) <= Score(pool[i], LowerText(text))
            /\ (j < i => Score(pool[j], LowerText(text)) < Score(pool[i], LowerText(text)))

\* C7: with a non-empty pool, the icon bound to an element is the pool
\* candidate of maximum score for the element's text, and among the
\* candidates of maximum score the first in pool order.
C7_PicksFirstMaximum ==
    mpc = "done" /\ icons # <<>> =>
        /\ \A k \in 1..Len(positioned_elements.key_points) :
              positioned_elements.key_points[k].icon
                  = icons[FirstMaximum(icons, positioned_elements.key_points[k].text)]
        /\ \A k \in 1..Len(positioned_elements.statistics) :
              positioned_elements.statistics[k].icon
                  = icons[FirstMaximum(icons, StatText(positioned_elements.statistics[k].data))]
        /\ \A k \in 1..Len(positioned_elements.quotes) :
              positioned_elements.quotes[k].icon = icons[FirstMaximum(icons, T_quote)]

AllPositioned ==
    Range(positioned_elements.key_points) \cup Range(positioned_elements.statistics)
        \cup Range(positioned_elements.quotes)

\* C8: a positioned element has no icon exactly when the pool is empty; with
\* a non-empty pool every positioned element of every kind has an icon taken
\* from the pool.
C8_NullIconIffEmptyPool ==
    mpc = "done" =>
        \A e \in AllPositioned :
            /\ (e.icon = NoneIcon) <=> (icons = <<>>)
            /\ (icons # <<>> => e.icon \in Range(icons))

C8_Witness ==
    /\ mpc = "done"
    /\ icons = <<>>
    /\ positioned_elements.key_points # <<>>
    /\ positioned_elements.statistics # <<>>
    /\ positioned_elements.quotes # <<>>
    /\ \A e \in AllPositioned : e.icon = NoneIcon

-----------------------------------------------------------------------------
(* Properties of the icon ranker (SpecRank) *)

\* C9: when the index is unavailable, raises on the query or returns no
\* result, find_relevant_icons returns a non-empty list of placeholders, no
\* longer than the limit, all of category "general".
C9_PlaceholdersWhenDegraded ==
    rpc = "done" /\ (~collection.available \/ queryRaises \/ indexAnswer = <<>>) =>
        /\ rankResult # <<>>
        /\ Len(rankResult) <= rlimit
        /\ \A i \in 1..Len(rankResult) : rankResult[i].category = T_general

Descending(r) ==
    \A i, j \in 1..Len(r) : i < j => r[i].similarity_score >= r[j].similarity_score

TiesById(r) ==
    \A i, j \in 1..Len(r) :
        i < j /\ r[i].similarity_score = r[j].similarity_score
            => IdRank(r[i].id) < IdRank(r[j].id)

C13_FallsBackToBasic ==
    ( /\ apc = "done"
      /\ \/ ~openai_client
         \/ response.kind \in {"raise", "badjson"}
         \/ ~response.draft.hasKeyPoints )
    => analysis = analyze_basic_content(transcript)

\* a configured client answered something that is not JSON, and the caller
\* holds the basic analysis of the long transcript
C13_Witness ==
    /\ apc = "done"
    /\ openai_client
    /\ response.kind = "badjson"
    /\ transcript = <<LongUnit, PlainUnit>>
    /\ analysis = analyze_basic_content(transcript)
    /\ analysis.category = "business"

\* C14: every returned analysis has one icon per key point
C14_OneIconPerKeyPoint ==
    apc = "done" => Len(analysis.icons) = Len(analysis.keyPoints)

\* the normalization steps applied to an analysis: key points padded to five
\* and truncated to six, statistics capped at four, quotes at two
Renormalize(a) ==
    [a EXCEPT !.keyPoints  = NormalizeKeyPoints(@),
              !.statistics = Take(@, MaxStatistics),
              !.quotes     = Take(@, MaxQuotes)]

Cardinalities(a) == <<Len(a.keyPoints), Len(a.statistics), Len(a.quotes)>>

\* C15: normalizing again keeps the cardinalities: the key points of every
\* returned analysis, all three sequences of an analysis of the basic path,
\* and all three of any analysis once it was normalized
C15_NormalizationIdempotent ==
    apc = "done" =>
        /\ Len(Renormalize(analysis).keyPoints) = Len(analysis.keyPoints)
        /\ ~ByOpenAI => Cardinalities(Renormalize(analysis)) = Cardinalities(analysis)
        /\ Cardinalities(Renormalize(Renormalize(analysis))) = Cardinalities(Renormalize(analysis))

\* a draft of seven key points, five statistics and three quotes: the first
\* normalization cuts all three, the second changes nothing
C15_Witness ==
    /\ apc = "done"
    /\ ByOpenAI
    /\ Len(response.draft.keyPoints) > MaxKeyPoints
    /\ Cardinalities(analysis) = <<MaxKeyPoints, MaxDraftStats, MaxDraftQuotes>>
    /\ Cardinalities(Renormalize(analysis)) = <<MaxKeyPoints, MaxStatistics, MaxQuotes>>
    /\ Cardinalities(Renormalize(Renormalize(analysis))) = <<MaxKeyPoints, MaxStatistics, MaxQuotes>>

-----------------------------------------------------------------------------
(* Properties of the jobs (SpecJobs, SpecJobsLive) *)

\* what generate_infographic_data returns when the store raises, or when an
\* exception is raised inside its try block for a template the store has
InternalFailureResults(content_analysis) ==
    { generate_infographic_data(content_analysis, t, StoreDown, collection, FALSE) : t \in TemplateIds }
    \cup { generate_infographic_data(content_analysis, default_template_id, st, collection, TRUE) :
              st \in {x \in Stores : default_template_id \in x.templates} }

\* C11: what generate_infographic_data returned for a template id the
\* reachable store does not have differs from everything it returns on an
\* internal failure
C11_NotFoundDistinct ==
    \A job_id \in DOMAIN generated_infographics :
        ( /\ template_store.up
          /\ generated_infographics[job_id].templateType \notin template_store.templates )
        => generated_infographics[job_id].templateData
               \notin InternalFailureResults(generated_infographics[job_id].analysis)

\* C12: when the store does not have the template of process_youtube_video,
\* no job's status is "completed"
C12_NotFoundNeverCompleted ==
    ( template_store.up /\ default_template_id \notin template_store.templates )
    => \A job_id \in DOMAIN processing_jobs : processing_jobs[job_id].status # "completed"

Terminal(job_id) ==
    /\ job_id \in DOMAIN processing_jobs
    /\ processing_jobs[job_id].status \in {"completed", "error"}

\* C16: every job that was created eventually has status "completed" or
\* "error" for good (a job, once created, stays: from some point on every
\* created job is terminal), and no step removes a job or changes the status
\* record of a job that is terminal
C16_JobsTerminate ==
    /\ \A job_id \in JobIds :
          <>[](job_id \in DOMAIN processing_jobs => Terminal(job_id))
    /\ [][ \A job_id \in JobIds :
              /\ job_id \in DOMAIN processing_jobs => job_id \in DOMAIN processing_jobs'
              /\ Terminal(job_id) => processing_jobs'[job_id] = processing_jobs[job_id] ]_vars

\* a job is completed, its task has returned, and a client has read the status
C16_Witness ==
    /\ reply.op = "status"
    /\ reply.code = 200
    /\ Terminal(reply.job)
    /\ processing_jobs[reply.job].status = "completed"
    /\ tasks[reply.job].pc = "returned"

\* C17: a generate request whose URL has no video id is answered 400 and
\* changes neither processing_jobs nor generated_infographics nor the
\* scheduled tasks
C17_InvalidUrlRejected ==
    [][ ( /\ reply' # reply
          /\ reply'.op = "generate"
          /\ extract_video_id(reply'.request) = InvalidURL )
        => /\ reply'.code = 400
           /\ reply'.job = NoJob
           /\ UNCHANGED <<processing_jobs, generated_infographics, tasks>> ]_vars

\* "watch?v=#abc" was rejected after a job had been created for an earlier request
C17_Witness ==
    /\ reply = [op |-> "generate", request |-> U_hash, job |-> NoJob, code |-> 400]
    /\ DOMAIN processing_jobs # {}
    /\ DOMAIN processing_jobs = DOMAIN tasks

\* the task of the job returned from the transcript retrieval
TranscriptFailed(job_id) ==
    /\ job_id \in DOMAIN tasks
    /\ tasks[job_id].pc = "returned"
    /\ tasks[job_id].video_metadata # EmptyDict
    /\ tasks[job_id].transcript_text = <<>>

\* C18: a job whose transcript could not be retrieved has status "error",
\* stage "Transcript unavailable", progress 25, and no infographic
C18_TranscriptUnavailable ==
    \A job_id \in JobIds :
        TranscriptFailed(job_id) =>
            /\ processing_jobs[job_id].status = "error"
            /\ processing_jobs[job_id].stage = "Transcript unavailable"
            /\ processing_jobs[job_id].progress = 25
            /\ job_id \notin DOMAIN generated_infographics

\* the retrieval failed, and a client asking for the infographic got 404
C18_Witness ==
    /\ reply.op = "infographic"
    /\ reply.code = 404
    /\ TranscriptFailed(reply.job)
    /\ processing_jobs[reply.job].message = "Could not retrieve transcript."

\* C19: a completed job has an infographic with id, videoMetadata, analysis
\* and templateData, which get_infographic delivers; a job in error has
\* none and get_infographic answers 404
C19_InfographicIffCompleted ==
    \A job_id \in DOMAIN processing_jobs :
        /\ processing_jobs[job_id].status = "completed" =>
              /\ job_id \in DOMAIN generated_infographics
              /\ get_infographic(generated_infographics, job_id).code = 200
              /\ {"id", "videoMetadata", "analysis", "templateData"}
                     \subseteq DOMAIN get_infographic(generated_infographics, job_id).body
              /\ generated_infographics[job_id].id = job_id
        /\ processing_jobs[job_id].status = "error" =>
              /\ job_id \notin DOMAIN generated_infographics
              /\ get_infographic(generated_infographics, job_id).code = 404

\* a client fetched the infographic of a completed job
C19_Witness ==
    /\ reply.op = "infographic"
    /\ reply.code = 200
    /\ processing_jobs[reply.job].status = "completed"
    /\ generated_infographics[reply.job].templateData # EmptyDict

\* C20: get_processing_status answers a job id generate_infographic has
\* returned with a record of status, stage, progress and message, and any
\* other job id with 404 "Job not found"
C20_StatusAlwaysAnswered ==
    \A job_id \in RequestIds :
        LET answer == get_processing_status(processing_jobs, job_id)
        IN  IF job_id \in DOMAIN tasks
            THEN /\ answer.code = 200
                 /\ DOMAIN answer.body = {"status", "stage", "progress", "message"}
            ELSE /\ answer.code = 404
                 /\ answer.body.message = "Job not found"

\* the status of a job was read before its background task started, and an
\* id that was never issued is unknown
C20_Witness ==
    /\ reply.op = "status"
    /\ reply.code = 200
    /\ tasks[reply.job].pc = "scheduled"
    /\ processing_jobs[reply.job].stage = "Starting analysis..."
    /\ get_processing_status(processing_jobs, MaxJobs + 1).code = 404

-----------------------------------------------------------------------------
(* Further properties of the layout mapper (SpecMap) *)

\* the rows of a kind whose element_index is i
SlotsAt(coords, i) == {k \in 1..Len(coords) : coords[k].index = i}

\* the output entries of a kind whose index is i
EntriesAt(entries, i) == {k \in 1..Len(entries) : entries[k].index = i}

BoundByElementIndex(elements, entries, coords) ==
    \A i \in 0..(Len(elements) - 1) :
        /\ (EntriesAt(entries, i) # {}) <=> (SlotsAt(coords, i) # {})
        /\ \A k \in EntriesAt(entries, i), s \in SlotsAt(coords, i) :
              entries[k].position = Geometry(coords[s])

\* C21: the element at position i of a kind is positioned if and only if the
\* template has a slot with element_index = i for that kind, and its position
\* is that of the slot whose element_index is i, for every template,
\* including one whose slot indices are not contiguous from 0.
C21_BoundByElementIndex ==
    mpc = "done" =>
        /\ BoundByElementIndex(content.keyPoints, positioned_elements.key_points,
                               template_data.coordinates.key_point)
        /\ BoundByElementIndex(content.statistics, positioned_elements.statistics,
                               template_data.coordinates.statistic)
        /\ BoundByElementIndex(content.quotes, positioned_elements.quotes,
                               template_data.coordinates.quote)

\* the icons of a sequence of positioned quotes, in order
QuoteIcons(quotes) == [k \in 1..Len(quotes) |-> quotes[k].icon]

\* quote lists of the same length with other texts: every quote replaced by
\* one text, and the texts rotated by one position
OtherQuotes(quotes) ==
    { [k \in 1..Len(quotes) |-> t] : t \in MapTexts }
    \cup { [k \in 1..Len(quotes) |-> quotes[(k % Len(quotes)) + 1]] }

\* C24: the icon of a positioned quote does not depend on the quote's text:
\* for the same template and pool, every content that differs from this one
\* only in its quote texts gets the same icon on every positioned quote, and
\* all positioned quotes of the layout carry the icon that scoring the pool
\* against the literal text "quote" selects.
C24_QuoteIconIgnoresText ==
    mpc = "done" =>
        /\ \A k \in 1..Len(positioned_elements.quotes) :
              positioned_elements.quotes[k].icon = _find_best_icon_for_text(T_quote, icons)
        /\ \A other \in OtherQuotes(content.quotes) :
              QuoteIcons(MapQuotes(other, template_data.coordinates.quote, icons))
                  = QuoteIcons(positioned_elements.quotes)

\* two positioned quotes whose own texts would select different icons
C24_Witness ==
    /\ mpc = "done"
    /\ Len(positioned_elements.quotes) = 2
    /\ _find_best_icon_for_text(positioned_elements.quotes[1].text, icons)
           # _find_best_icon_for_text(positioned_elements.quotes[2].text, icons)
    /\ positioned_elements.quotes[1].icon = positioned_elements.quotes[2].icon

\* the words of " ".join(keywords): the spans between the spaces, which are
\* the keywords _add_image_batch split from the file name
WordSpans(text) ==
    { span \in (1..Len(text)) \X (1..Len(text)) :
        /\ span[1] <= span[2]
        /\ \A k \in span[1]..span[2] : text[k] # " "
        /\ (span[1] = 1 \/ text[span[1] - 1] = " ")
        /\ (span[2] = Len(text) \/ text[span[2] + 1] = " ") }

\* the number of indexed keywords of the icon that occur in the text
WordHits(icon, text_lower) ==
    Cardinality({ span \in WordSpans(icon.keywords.val) :
                    Contains(text_lower, LowerText(SubSeq(icon.keywords.val, span[1], span[2]))) })

\* C28: for a candidate that find_relevant_icons produced from an icon
\* indexed by _add_image_batch, the keyword part of its score for the text
\* of a positioned key point is 2 times the number of the icon's indexed
\* keywords (the whole words split from the file name) that occur
\* case-insensitively in that text.
C28_KeywordScoreCountsWords ==
    mpc = "done" =>
        \A i \in 1..Len(icons), k \in 1..Len(positioned_elements.key_points) :
            icons[i].keywords.kind = "str" =>
                2 * ScoreScale * KeywordHits(icons[i], LowerText(positioned_elements.key_points[k].text))
                    = 2 * ScoreScale * WordHits(icons[i], LowerText(positioned_elements.key_points[k].text))

-----------------------------------------------------------------------------
(* Further properties of the content analysis (SpecAnalyze) *)

\* C22: every statistic in the output of analyze_basic_content is derived
\* from a sentence unit of the input that contains a percentage pattern, its
\* value being the located number and its percentage that number capped at
\* 100; a text with no percentage pattern yields zero statistics.
C22_StatisticsFromPercentages ==
    apc = "done" /\ ~ByOpenAI =>
        /\ \A i \in 1..Len(analysis.statistics) :
              /\ analysis.statistics[i].origin = "sentence"
              /\ analysis.statistics[i].n \in 1..Len(transcript)
              /\ transcript[analysis.statistics[i].n].pct # NoPct
              /\ analysis.statistics[i].value = transcript[analysis.statistics[i].n].pct
              /\ analysis.statistics[i].percentage
                     = Min(transcript[analysis.statistics[i].n].pct, MaxPercentage)
        /\ ( (\A k \in 1..Len(transcript) : transcript[k].pct = NoPct)
                => analysis.statistics = <<>> )

\* key_points as analyze_basic_content holds it before the padding loop
BasicDraftPoints(sentences) ==
    IF MarkedPoints(sentences) = <<>> THEN Take(MeaningfulPoints(sentences), MaxKeyPoints)
                                      ELSE MarkedPoints(sentences)

\* result holds the first min(n, 6) points of draft in their order, then
\* only the filler, which is there only when n < 5 and only up to 5 entries
PreservesOrder(draft, result, filler) ==
    LET kept == Min(Len(draft), MaxKeyPoints)
    IN  /\ Len(result) = (IF Len(draft) < MinKeyPoints THEN MinKeyPoints ELSE kept)
        /\ \A k \in 1..kept : result[k] = draft[k]
        /\ \A k \in (kept + 1)..Len(result) : result[k] = filler

\* C23: key point normalization preserves original order: for a draft with
\* n key points the result starts with the first min(n, 6) draft key points
\* in their original order, and every entry after them is the generic filler
\* string, appended only when n < 5 and only until the count is 5.
C23_NormalizationPreservesOrder ==
    apc = "done" =>
        IF ByOpenAI
        THEN PreservesOrder(response.draft.keyPoints, analysis.keyPoints, OpenAIFiller)
        ELSE PreservesOrder(BasicDraftPoints(transcript), analysis.keyPoints, BasicFiller)

C23_Witness ==
    /\ apc = "done"
    /\ ByOpenAI
    /\ Len(response.draft.keyPoints) = 3
    /\ Take(analysis.keyPoints, 3) = response.draft.keyPoints
    /\ analysis.keyPoints[4] = OpenAIFiller
    /\ analysis.keyPoints[5] = OpenAIFiller

-----------------------------------------------------------------------------
(* Further properties of the icon ranking (SpecRank) *)

\* C25: every icon candidate returned by find_relevant_icons, from the index
\* or from the fallback set, has a similarity_score between 0 and 1
\* inclusive (0 and ScoreScale in tenths), for every distance the
\* cosine-space index can report.
C25_SimilarityInUnitInterval ==
    rpc # "start" =>
        \A i \in 1..Len(rankResult) :
            /\ rankResult[i].similarity_score >= 0
            /\ rankResult[i].similarity_score <= ScoreScale

-----------------------------------------------------------------------------
(* Further properties of the jobs (SpecConcurrent, SpecJobs) *)

\* the entries of the job in the two stores and its task are as before
JobUntouched(job_id) ==
    /\ processing_jobs'[job_id] = processing_jobs[job_id]
    /\ tasks'[job_id] = tasks[job_id]
    /\ (job_id \in DOMAIN generated_infographics') <=> (job_id \in DOMAIN generated_infographics)
    /\ job_id \in DOMAIN generated_infographics =>
           generated_infographics'[job_id] = generated_infographics[job_id]

\* the stored infographic of the job is computed from the job's own
\* metadata, transcript and analysis
OwnInfographic(job_id) ==
    LET stored == generated_infographics[job_id]
    IN  /\ stored.id = job_id
        /\ stored.videoMetadata = get_video_metadata(extract_video_id(tasks[job_id].url))
        /\ stored.analysis = tasks[job_id].content_analysis
        /\ stored.transcriptText = Excerpt(tasks[job_id].transcript_text)
        /\ stored.templateData \in
               { generate_infographic_data(tasks[job_id].content_analysis, default_template_id,
                                           template_store, collection, fault) :
                     fault \in Faults(default_template_id, template_store) }

\* two jobs whose tasks stand at the same point with the same data have the
\* same status, stage and progress, and both or neither have an infographic
SameCourse(j, k) ==
    tasks[j] = tasks[k] =>
        /\ processing_jobs[j].status = processing_jobs[k].status
        /\ processing_jobs[j].stage = processing_jobs[k].stage
        /\ processing_jobs[j].progress = processing_jobs[k].progress
        /\ (j \in DOMAIN generated_infographics) <=> (k \in DOMAIN generated_infographics)

\* C26: under any interleaving of the processing steps of jobs with distinct
\* ids, a step of one job leaves the entries and the task of every other job
\* as they were; hence a job's stored infographic is computed from its own
\* data, and jobs at the same point of the same course have the same status
\* whatever the other jobs did meanwhile.
C26_JobsIsolated ==
    /\ [][ \A j \in ConcurrentJobs :
              tasks'[j] # tasks[j] => \A k \in ConcurrentJobs \ {j} : JobUntouched(k) ]_vars
    /\ [](\A j \in DOMAIN generated_infographics : OwnInfographic(j))
    /\ [](\A j, k \in ConcurrentJobs : SameCourse(j, k))

\* one job completed while another, given another video, failed at its
\* transcript
C26_Witness ==
    /\ processing_jobs[1].status = "completed"
    /\ processing_jobs[2].status = "error"
    /\ tasks[1].url # tasks[2].url
    /\ 1 \in DOMAIN generated_infographics
    /\ generated_infographics[1].videoMetadata # tasks[2].video_metadata

\* C27: a job's content analysis is immutable once stored: no step changes
\* generated_infographics[job]["analysis"], which is the analysis the task
\* obtained, neither the generation that stores it nor any sequence of
\* generate_with_template calls with any template ids; the layout carries
\* the same analysis as its content.
C27_AnalysisImmutable ==
    /\ [][ \A job_id \in DOMAIN generated_infographics :
              /\ job_id \in DOMAIN generated_infographics'
              /\ generated_infographics'[job_id].analysis
                     = generated_infographics[job_id].analysis ]_vars
    /\ [](\A job_id \in DOMAIN generated_infographics :
              /\ generated_infographics[job_id].analysis = tasks[job_id].content_analysis
              /\ generated_infographics[job_id].templateData # EmptyDict =>
                     generated_infographics[job_id].templateData.content
                         = tasks[job_id].content_analysis)

\* the template of a stored infographic was replaced by one the store does
\* not have, and its analysis still has its key points
C27_Witness ==
    /\ reply.op = "template"
    /\ reply.code = 200
    /\ reply.job \in DOMAIN generated_infographics
    /\ generated_infographics[reply.job].templateType # default_template_id
    /\ generated_infographics[reply.job].templateData = EmptyDict
    /\ Len(generated_infographics[reply.job].analysis.keyPoints) >= MinKeyPoints

\* C29: a generate_with_template call that cannot produce a layout (the job
\* id is absent from generated_infographics, the template id is unknown, or
\* generation fails) leaves generated_infographics unchanged: a stored
\* infographic changes only in a step that gives it a layout, so its
\* templateData and templateType keep their values otherwise.
C29_FailedRegenerationKeepsLayout ==
    [][ /\ DOMAIN generated_infographics \subseteq DOMAIN generated_infographics'
        /\ \A job_id \in DOMAIN generated_infographics :
              generated_infographics'[job_id] # generated_infographics[job_id]
                  => generated_infographics'[job_id].templateData # EmptyDict ]_vars

\* the progress values of the records whose status is "processing"
ProgressSteps == {0, 10, 25, 50, 70, 85, 100}

\* C30: along every execution of a job, while its status is "processing"
\* the progress of its status record never decreases from one record to the
\* next and is one of 0, 10, 25, 50, 70, 85, 100, and progress stays within
\* 0..100 in every status record.
C30_ProgressMonotone ==
    /\ [][ \A job_id \in DOMAIN processing_jobs :
              ( /\ processing_jobs[job_id].status = "processing"
                /\ processing_jobs'[job_id].status = "processing" )
              => processing_jobs'[job_id].progress >= processing_jobs[job_id].progress ]_vars
    /\ [](\A job_id \in DOMAIN processing_jobs :
              /\ processing_jobs[job_id].progress \in 0..MaxPercentage
              /\ processing_jobs[job_id].status = "processing"
                     => processing_jobs[job_id].progress \in ProgressSteps)

\* the job went through every step up to "Finalizing and optimizing..."
C30_Witness ==
    \E job_id \in DOMAIN processing_jobs :
        /\ processing_jobs[job_id].status = "processing"
        /\ processing_jobs[job_id].progress = 100
        /\ tasks[job_id].pc = "generate"

====
